---- MODULE Spec2Model ----
\* State-machine model of httpx/client.py: the send pipeline, the redirect
\* engine (send_handling_redirects / build_redirect_request), the deferred
\* next() continuation, the sync bridge (Client.request), the cookie jar, URL
\* merging, credential resolution and the client's scope and close().
\* Spec explores the engine at large; SpecCookies, SpecAuth, SpecURL, SpecHeaders,
\* SpecOrigins, SpecCancel, SpecClose, SpecConcurrent and SpecChain run the same
\* operations over inputs chosen for one concern each.
EXTENDS Integers, Sequences, FiniteSets, TLC

VARIABLES
    client,         \* the client context: max_redirects, auth, trust_env, base_url, headers, cookie jar, netrc entries seen
    pc,             \* position of the one call in flight: idle, dispatch, read, syncread, done
    call,           \* per-call arguments of request()/send() and the two bindings of `request` in send()
    frame,          \* locals of the running send_handling_redirects frame
    history,        \* the chain's shared history list (response ids, in order of receipt)
    responses,      \* every AsyncResponse received from the dispatcher, by id
    conts,          \* cells (request, response) captured by each send_next closure
    dispatched,     \* log of the requests handed to dispatch.send
    extracted,      \* ids of the responses passed to cookies.extract_cookies, in order
    returned,       \* id of the response the last operation returned to the caller (0: none)
    error,          \* the exception the last operation raised to the caller (kind "": none)
    syncResp,       \* the sync Response wrapper built by Client.request
    callerClosed,   \* ids of the returned responses the caller has closed
    nextCalls,      \* how many times the caller has invoked a next() continuation
    lifecycle,      \* the client's scope (with block), its close() calls, the dispatcher's close count
    parked          \* the other call on this client, suspended: its pc, call, frame, history, ...

vars == <<client, pc, call, frame, history, responses, conts, dispatched,
          extracted, returned, error, syncResp, callerClosed, nextCalls, lifecycle,
          parked>>

-----------------------------------------------------------------------------
\* Bounds of the model.

\* max_redirects ranges over 0..MaxRedirectsBound
MaxRedirectsBound == 1

\* next() invocations the caller makes in one run
MaxNextCalls == 2

\* explicit close() calls the caller makes in one run
MaxCloseCalls == 2

-----------------------------------------------------------------------------
\* Value types the core relies on (URL, Headers, Request, Response).

MkURL(s, h, p, path, frag) ==
    [scheme |-> s, host |-> h, port |-> p, path |-> path, fragment |-> frag,
     userinfo |-> ""]

NoURL == MkURL("", "", 0, "", "")

\* URL.is_relative_url: no scheme or no host
is_relative_url(u) == ~(u.scheme # "" /\ u.host # "")

\* URL.port: the explicit port (0: none given), else the default of the scheme
EffectivePort(u) ==
    IF u.port # 0 THEN u.port
    ELSE IF u.scheme = "https" THEN 443
    ELSE IF u.scheme = "http" THEN 80
    ELSE 0

\* URL.authority: host and explicit port
authority(u) == <<u.host, u.port>>

\* URL.origin: (scheme, host, port)
origin(u) == <<u.scheme, u.host, EffectivePort(u)>>

\* URL.join: resolve a path-absolute relative reference against a base URL
join(base, rel) ==
    IF is_relative_url(rel)
    THEN MkURL(base.scheme, base.host, base.port,
               IF rel.path = "" THEN base.path ELSE rel.path, rel.fragment)
    ELSE rel

\* Headers: case-insensitive map; "" stands for an absent name
NoHeaders == [authorization |-> "", host |-> ""]

\* Headers.__delitem__: deleting an absent name is tolerated
DelHeader(h, name) ==
    IF name = "authorization" THEN [h EXCEPT !.authorization = ""]
    ELSE IF name = "host" THEN [h EXCEPT !.host = ""]
    ELSE h

\* Cookies: a jar of name -> value; "" stands for an absent name
NoCookies == [sid |-> "", pref |-> ""]

\* Cookies.update: the names `other` holds replace those of `jar`
UpdateCookies(jar, other) ==
    [sid |-> IF other.sid # "" THEN other.sid ELSE jar.sid,
     pref |-> IF other.pref # "" THEN other.pref ELSE jar.pref]

\* Cookies.extract_cookies: the Set-Cookie values of the response go into the jar
extract_cookies(jar, response) == UpdateCookies(jar, response.set_cookie)

\* a request keeps the cookies it was constructed with (request.cookies)
MkRequest(obj, m, u, h, streaming, content, cookies) ==
    [obj |-> obj, method |-> m, url |-> u, headers |-> h,
     is_streaming |-> streaming, content |-> content, cookies |-> cookies]

NoReq == MkRequest("none", "", NoURL, NoHeaders, FALSE, "", NoCookies)

\* codes.MOVED_PERMANENTLY, codes.FOUND, codes.SEE_OTHER as used by redirect_method
MOVED_PERMANENTLY == 301
FOUND == 302
SEE_OTHER == 303

RedirectCodes == {301, 302, 303, 307, 308}

\* Response.is_redirect: redirect status and a Location header
is_redirect(resp) == resp.status \in RedirectCodes /\ resp.hasLocation

\* AsyncResponse as the dispatcher hands it over: its url is the url of the
\* request it answers; the body is open and the close hook not yet invoked.
MkResponse(req, status, hasLoc, loc, set_cookie) ==
    [url |-> req.url, status |-> status, hasLocation |-> hasLoc, location |-> loc,
     set_cookie |-> set_cookie, history |-> <<>>, is_closed |-> FALSE, closes |-> 0, next |-> 0]

\* AsyncResponse.close: releases the body once; the on_close hook runs the first time only
CloseResponse(resp) ==
    IF resp.is_closed THEN resp
    ELSE [resp EXCEPT !.is_closed = TRUE, !.closes = @ + 1]

-----------------------------------------------------------------------------
\* Redirect-request construction (BaseClient.build_redirect_request and helpers).

redirect_method_301_any(request, response) ==
    LET m0 == request.method
    IN  IF response.status \in {MOVED_PERMANENTLY, FOUND, SEE_OTHER} /\ m0 # "HEAD"
        THEN "GET" ELSE m0

redirect_method(request, response) ==
    LET m0 == request.method
        m1 == IF response.status = SEE_OTHER /\ m0 # "HEAD" THEN "GET" ELSE m0
        m2 == IF response.status = FOUND /\ m1 # "HEAD" THEN "GET" ELSE m1
        m3 == IF response.status = MOVED_PERMANENTLY /\ m2 = "POST" THEN "GET" ELSE m2
    IN  m3

redirect_url(request, response) ==
    LET u0 == response.location
        u1 == IF is_relative_url(u0) THEN join(request.url, u0) ELSE u0
        u2 == IF request.url.fragment # "" /\ u1.fragment = ""
              THEN [u1 EXCEPT !.fragment = request.url.fragment] ELSE u1
    IN  u2

redirect_headers_keeps_auth(request, url) ==
    IF origin(url) # origin(request.url)
    THEN DelHeader(request.headers, "host")
    ELSE request.headers

redirect_headers_by_host(request, url) ==
    IF url.host # request.url.host
    THEN DelHeader(DelHeader(request.headers, "authorization"), "host")
    ELSE request.headers

redirect_headers(request, url) ==
    IF origin(url) # origin(request.url)
    THEN DelHeader(DelHeader(request.headers, "authorization"), "host")
    ELSE request.headers

redirect_content_stream_first(request, method, response) ==
    IF request.is_streaming
    THEN [exc |-> "RedirectBodyUnavailable", content |-> ""]
    ELSE IF method # request.method /\ method = "GET"
    THEN [exc |-> "", content |-> ""]
    ELSE [exc |-> "", content |-> request.content]

\* redirect_content: "" is b""; exc is the exception raised, "" when none
redirect_content(request, method, response) ==
    IF method # request.method /\ method = "GET"
    THEN [exc |-> "", content |-> ""]
    ELSE IF request.is_streaming
    THEN [exc |-> "RedirectBodyUnavailable", content |-> ""]
    ELSE [exc |-> "", content |-> request.content]

merge_cookies_jar_wins(jar, cookies) ==
    IF cookies # NoCookies \/ jar # NoCookies
    THEN UpdateCookies(cookies, jar)
    ELSE cookies

\* merge_cookies: `jar` is self.cookies at the time of the call; the merged
\* cookies are a copy of the jar updated with the cookies passed in
merge_cookies(jar, cookies) ==
    IF cookies # NoCookies \/ jar # NoCookies
    THEN UpdateCookies(jar, cookies)
    ELSE cookies

\* build_redirect_request: [exc, req]; headers["Location"] raises KeyError
\* when the response has no Location header. `jar` is self.cookies.
build_redirect_request(jar, request, response) ==
    IF ~response.hasLocation
    THEN [exc |-> "KeyError", req |-> NoReq]
    ELSE LET method == redirect_method(request, response)
             url == redirect_url(request, response)
             headers == redirect_headers(request, url)
             body == redirect_content(request, method, response)
         IN  IF body.exc # ""
             THEN [exc |-> body.exc, req |-> NoReq]
             ELSE [exc |-> "",
                   req |-> MkRequest("redirect", method, url, headers, FALSE, body.content,
                                     merge_cookies(jar, request.cookies))]

-----------------------------------------------------------------------------
\* Inputs: the calls the caller makes and the answers the server gives.

URL_A1 == MkURL("https", "a", 0, "/1", "")

\* per-call URLs: one served over https, one with a scheme the client must reject
CallURLs == {URL_A1, MkURL("ftp", "a", 21, "/1", "")}

\* (method, body) of the call; a body is bytes or a lazy stream
CallBodies ==
    {[method |-> "GET", is_streaming |-> FALSE, content |-> ""],
     [method |-> "HEAD", is_streaming |-> FALSE, content |-> ""],
     [method |-> "POST", is_streaming |-> FALSE, content |-> "data"],
     [method |-> "POST", is_streaming |-> TRUE, content |-> ""],
     [method |-> "PUT", is_streaming |-> FALSE, content |-> "data"]}

\* (auth argument, per-call headers, per-call cookies, trust_env argument): auth is none, a credentials pair (Basic,
\* sets the header on the request it is given) or a callable returning a new request
CallAuths ==
    {[auth |-> "none", headers |-> NoHeaders, cookies |-> NoCookies, trust_env |-> "unset"],
     [auth |-> "basic", headers |-> [authorization |-> "", host |-> "a"],
      cookies |-> NoCookies, trust_env |-> "unset"],
     [auth |-> "custom", headers |-> NoHeaders, cookies |-> NoCookies,
      trust_env |-> "unset"]}

Surfaces == {"async", "sync"}

\* what the dispatcher may answer to one request: (status, Location header)
Answer(status, hasLocation, location) ==
    [status |-> status, hasLocation |-> hasLocation, location |-> location,
     set_cookie |-> NoCookies]

ServerResponses ==
    {Answer(200, FALSE, NoURL),
     Answer(302, FALSE, NoURL),
     Answer(302, TRUE, URL_A1),
     Answer(302, TRUE, MkURL("https", "c", 0, "/2", "")),
     Answer(302, TRUE, MkURL("ftp", "a", 21, "/2", "")),
     Answer(302, TRUE, MkURL("https", "a", 8443, "/2", "")),
     Answer(307, TRUE, MkURL("", "", 0, "/3", "f"))}
    \cup {Answer(status, TRUE, MkURL("https", "a", 0, "/2", "")) : status \in RedirectCodes}

-----------------------------------------------------------------------------
\* Client context helpers (BaseClient).

\* hstspreload.in_hsts_preload: the static preload database
HSTSPreload == {"h"}

merge_url_upgrade_first(url) ==
    LET u == IF url.scheme = "http" /\ url.host \in HSTSPreload
             THEN [url EXCEPT !.scheme = "https"]
             ELSE url
    IN  join(client.base_url, u)

\* merge_url: join onto the base URL, then the HSTS upgrade
merge_url(url) ==
    LET u == join(client.base_url, url)
    IN  IF u.scheme = "http" /\ u.host \in HSTSPreload
        THEN [u EXCEPT !.scheme = "https"]
        ELSE u

merge_headers_appends(headers) ==
    IF headers # NoHeaders \/ client.headers # NoHeaders
    THEN [authorization |-> IF headers.authorization # "" /\ client.headers.authorization # ""
                            THEN client.headers.authorization \o ", " \o headers.authorization
                            ELSE IF headers.authorization # "" THEN headers.authorization
                            ELSE client.headers.authorization,
          host |-> IF headers.host # "" /\ client.headers.host # ""
                   THEN client.headers.host \o ", " \o headers.host
                   ELSE IF headers.host # "" THEN headers.host ELSE client.headers.host]
    ELSE headers

\* merge_headers: a copy of the client's headers updated with the headers
\* passed in (Headers.update sets each name it is given)
merge_headers(headers) ==
    IF headers # NoHeaders \/ client.headers # NoHeaders
    THEN [authorization |-> IF headers.authorization # "" THEN headers.authorization
                            ELSE client.headers.authorization,
          host |-> IF headers.host # "" THEN headers.host ELSE client.headers.host]
    ELSE headers

SchemeAllowedAny(url) == url.scheme # ""

\* send(), lines 154-157: the schemes send() accepts
SchemeAllowed(url) == url.scheme \in {"http", "https"}

ResolveAuthNetrcFirst(auth, url, trust_env) ==
    LET a1 == IF auth = "none" THEN client.auth ELSE auth
    IN  IF a1 # "none" THEN a1
        ELSE IF (IF trust_env = "unset" THEN client.trust_env ELSE trust_env = "true")
                /\ authority(url) \in client.netrc_hosts
        THEN "netrc"
        ELSE IF url.userinfo # "" THEN "url"
        ELSE "none"

\* send(), lines 151-168: which auth transformation applies. "none" is None;
\* "basic" a credentials pair and "custom" a callable given by the caller,
\* "default" the client's own auth; "url" and "netrc" the HTTPBasicAuth built
\* from the URL's user-info and from the netrc entry of the URL's authority.
ResolveAuth(auth, url, trust_env) ==
    LET a1 == IF auth = "none" THEN client.auth ELSE auth
    IN  IF a1 # "none" THEN a1
        ELSE IF url.userinfo # "" THEN "url"
        ELSE IF (IF trust_env = "unset" THEN client.trust_env ELSE trust_env = "true")
                /\ authority(url) \in client.netrc_hosts
        THEN "netrc"
        ELSE "none"

\* send(), lines 170-173: request = auth(request). Basic auth sets the header on
\* the request it is given (the credentials it encodes are those of its source);
\* a custom callable hands back a request of its own.
ApplyAuth(auth, request) ==
    IF auth = "basic" THEN [request EXCEPT !.headers.authorization = "Basic"]
    ELSE IF auth \in {"default", "url", "netrc"}
    THEN [request EXCEPT !.headers.authorization = "Basic " \o auth]
    ELSE IF auth = "custom"
    THEN [request EXCEPT !.obj = "auth", !.headers.authorization = "Custom"]
    ELSE request

\* send(), lines 183-186: the request put on an HTTPError (`request` was
\* rebound to the result of auth(request) on line 173)
ErrorRequest(original, transformed) == transformed

SendAlwaysReadsBody(stream) == TRUE

\* send(), line 188: whether send() reads and closes the body itself
SendReadsBody(stream) == ~stream

SendClosesOnlyOnSuccess(ok) == ok

\* send(), lines 189-192: try: read() finally: close() -- whether close() runs,
\* given whether read() succeeded
SendClosesAfterRead(ok) == TRUE

SyncClosesOnlyOnSuccess(ok) == ok

\* Client.request, lines 733-737: the same on the sync Response
SyncClosesAfterRead(ok) == TRUE

-----------------------------------------------------------------------------
\* The redirect engine (BaseClient.send_handling_redirects).

NoError == [kind |-> "", response |-> 0, request |-> NoReq, via |-> ""]

NoFrame == [request |-> NoReq, allow_redirects |-> FALSE, via |-> "", cont |-> 0]

NoCall ==
    [surface |-> "", stream |-> FALSE, send_stream |-> FALSE, allow_redirects |-> FALSE,
     url |-> NoURL, headers |-> NoHeaders, auth |-> "", trust_env |-> "", original |-> NoReq, request |-> NoReq, result |-> 0]

NoSync == [of |-> 0, is_closed |-> FALSE, history |-> <<>>, has_next |-> FALSE]

Last(seq) == IF Len(seq) = 0 THEN 0 ELSE seq[Len(seq)]

TooManyOffByOne(hist) == Len(hist) >= client.max_redirects

TooManyLate(hist) == Len(hist) > client.max_redirects + 1

\* line 212
TooMany(hist) == Len(hist) > client.max_redirects

InHistorySkipsFirst(url, hist, resps) == \E i \in 2..Len(hist) : resps[hist[i]].url = url

\* line 214
InHistory(url, hist, resps) == \E i \in 1..Len(hist) : resps[hist[i]].url = url

\* lines 212-215: the exception the precheck raises, "" when none
Precheck(request, hist, resps) ==
    IF TooMany(hist) THEN "TooManyRedirects"
    ELSE IF InHistory(request.url, hist, resps) THEN "RedirectLoop"
    ELSE ""

SnapshotAfterAppend(hist) == Append(hist, Len(hist) + 1)

SharedHistory(received) == [i \in 1..Len(received) |-> received[i]]

\* lines 204-207: a call that passes no history starts the engine on a list
\* of its own (`received`: the responses the client has received so far)
NewHistory(received) == <<>>

NextHistoryFresh(hist) == <<>>

\* send_next, line 249: history=history, the list of the chain itself
NextHistory(hist) == hist

\* line 224: response.history = list(history)
SnapshotHistory(hist) == hist

\* lines 228-235: whether the loop goes on to the next hop
ShouldFollow(allow_redirects, resp) == allow_redirects /\ is_redirect(resp)

ShouldCloseNever(follow) == FALSE

\* lines 220-235: should_close_response is True from the start of the try and
\* set to False only on the branch that breaks out to return the response
should_close_response(follow) == follow

ExtractOnlyFinal(jar, log, resp, rid) ==
    IF is_redirect(resp) THEN [cookies |-> jar, log |-> log]
    ELSE [cookies |-> extract_cookies(jar, resp), log |-> Append(log, rid)]

\* line 225: self.cookies.extract_cookies(response), first thing after the
\* response arrives, whatever happens to the response afterwards
Extract(jar, log, resp, rid) ==
    [cookies |-> extract_cookies(jar, resp), log |-> Append(log, rid)]

\* An exception leaves the engine. Raised through send() an HTTPError gets the
\* request attached (lines 183-186); raised through next() nothing catches it.
Raise(kind, rid, via, original, transformed) ==
    /\ pc' = "done"
    /\ returned' = 0
    /\ frame' = NoFrame
    /\ error' = [kind |-> kind, response |-> rid, via |-> via,
                 request |-> IF via = "send" /\ kind # "KeyError"
                             THEN ErrorRequest(original, transformed) ELSE NoReq]

\* Top of the while loop: precheck, then hand the request to dispatch.send.
\* prior/from name the request and the redirect response this one was built from.
EnterLoop(request, prior, from, hist, resps, fr, original, transformed) ==
    LET exc == Precheck(request, hist, resps)
    IN  IF exc # ""
        THEN /\ Raise(exc, Last(hist), fr.via, original, transformed)
             /\ dispatched' = dispatched
        ELSE /\ pc' = "dispatch"
             /\ frame' = [fr EXCEPT !.request = request]
             /\ dispatched' = Append(dispatched,
                    [request |-> request, prior |-> prior, from |-> from,
                     status |-> IF from = 0 THEN 0 ELSE resps[from].status,
                     via |-> fr.via, cont |-> fr.cont, hop |-> Len(hist) + 1])
             /\ error' = NoError
             /\ returned' = 0

-----------------------------------------------------------------------------
\* Operations.

\* a client just constructed: no scope entered, never closed
NewLifecycle ==
    [scope |-> "out", exc |-> FALSE, explicit |-> 0, close_calls |-> 0, dispatch_closes |-> 0]

\* a call not yet made
IdleCall ==
    [pc |-> "idle", call |-> NoCall, frame |-> NoFrame, history |-> <<>>, returned |-> 0,
     error |-> NoError, syncResp |-> NoSync, callerClosed |-> {}, nextCalls |-> 0]

TypeInit ==
    /\ lifecycle = NewLifecycle
    /\ parked = IdleCall
    /\ pc = "idle"
    /\ call = NoCall
    /\ frame = NoFrame
    /\ history = <<>>
    /\ responses = <<>>
    /\ conts = <<>>
    /\ dispatched = <<>>
    /\ extracted = <<>>
    /\ returned = 0
    /\ error = NoError
    /\ syncResp = NoSync
    /\ callerClosed = {}
    /\ nextCalls = 0

\* BaseClient.__init__
Init ==
    /\ client \in [max_redirects : 0..MaxRedirectsBound, auth : {"none"},
                   trust_env : {TRUE}, base_url : {NoURL}, headers : {NoHeaders},
                   cookies : {NoCookies}, netrc_hosts : {{}}]
    /\ TypeInit

\* AsyncClient.request / Client.request up to the first await of send():
\* merge, build the request, check the scheme, apply auth, enter the engine.
Request(surface, body, url, ah, stream, allow_redirects) ==
    /\ pc = "idle"
    /\ LET request == MkRequest("user", body.method, merge_url(url),
                                merge_headers(ah.headers), body.is_streaming, body.content,
                                merge_cookies(client.cookies, ah.cookies))
           send_stream == IF surface = "sync" THEN TRUE ELSE stream
           auth == ResolveAuth(ah.auth, request.url, ah.trust_env)
           transformed == ApplyAuth(auth, request)
           fr == [request |-> transformed, allow_redirects |-> allow_redirects,
                  via |-> "send", cont |-> 0]
       IN  /\ call' = [surface |-> surface, stream |-> stream, send_stream |-> send_stream,
                       allow_redirects |-> allow_redirects,
                       url |-> url, headers |-> ah.headers,
                       auth |-> ah.auth, trust_env |-> ah.trust_env,
                       original |-> request, request |-> transformed, result |-> 0]
           /\ IF ~SchemeAllowed(request.url)
              THEN /\ pc' = "done"
                   /\ error' = [NoError EXCEPT !.kind = "InvalidURL", !.via = "send"]
                   /\ UNCHANGED <<frame, history, dispatched, returned>>
              ELSE /\ history' = NewHistory(extracted)
                   /\ EnterLoop(transformed, NoReq, 0, NewHistory(extracted), responses, fr,
                                request, transformed)
    /\ UNCHANGED <<client, responses, conts, extracted, syncResp, callerClosed,
                   nextCalls,
                   lifecycle, parked>>

\* The engine hands `rid` back to its caller (lines 237-255): send() goes on to
\* the body (lines 188-194), Client.request wraps it (lines 712-738), send_next
\* rebinds its cell (lines 243-251).
EngineReturns(rid, resp) ==
    LET withNext == is_redirect(resp)
        resp1 == IF withNext THEN [resp EXCEPT !.next = Len(conts) + 1] ELSE resp
        conts1 == IF frame.via = "next"
                  THEN [conts EXCEPT ![frame.cont].response = rid] ELSE conts
    IN  /\ responses' = Append(responses, resp1)
        /\ conts' = IF withNext
                    THEN Append(conts1, [request |-> frame.request, response |-> rid])
                    ELSE conts1
        /\ frame' = NoFrame
        /\ error' = NoError
        /\ dispatched' = dispatched
        /\ call' = IF frame.via = "send" THEN [call EXCEPT !.result = rid] ELSE call
        /\ IF frame.via = "send" /\ SendReadsBody(call.send_stream)
           THEN /\ pc' = "read"
                /\ returned' = 0
                /\ syncResp' = syncResp
           ELSE IF frame.via = "send" /\ call.surface = "sync"
           THEN /\ syncResp' = [of |-> rid, is_closed |-> FALSE,
                                history |-> resp1.history, has_next |-> FALSE]
                /\ IF ~call.stream
                   THEN pc' = "syncread" /\ returned' = 0
                   ELSE pc' = "done" /\ returned' = rid
           ELSE /\ pc' = "done"
                /\ returned' = rid
                /\ syncResp' = syncResp

\* dispatch.send returns a response: lines 217-235, then either the next
\* iteration's precheck and dispatch, or the return of the engine.
DispatchReturn(answer) ==
    /\ pc = "dispatch"
    /\ LET rid == Len(responses) + 1
           resp == [MkResponse(frame.request, answer.status, answer.hasLocation,
                               answer.location, answer.set_cookie)
                    EXCEPT !.history = SnapshotHistory(history)]
           ex == Extract(client.cookies, extracted, resp, rid)
           jar == ex.cookies
           hist1 == Append(history, rid)
       IN  /\ history' = hist1
           /\ client' = [client EXCEPT !.cookies = jar]
           /\ extracted' = ex.log
           /\ IF ShouldFollow(frame.allow_redirects, resp)
              THEN LET b == build_redirect_request(jar, frame.request, resp)
                       closed == Append(responses,
                                        IF should_close_response(TRUE)
                                        THEN CloseResponse(resp) ELSE resp)
                   IN  /\ responses' = closed
                       /\ conts' = conts
                       /\ call' = call
                       /\ syncResp' = syncResp
                       /\ IF b.exc # ""
                          THEN /\ Raise(b.exc, rid, frame.via, call.original, call.request)
                               /\ dispatched' = dispatched
                          ELSE EnterLoop(b.req, frame.request, rid, hist1, closed,
                                         frame, call.original, call.request)
              ELSE EngineReturns(rid, IF should_close_response(FALSE)
                                      THEN CloseResponse(resp) ELSE resp)
    /\ UNCHANGED <<callerClosed, nextCalls,
                   lifecycle, parked>>

\* dispatch.send raises an HTTPError (a transport failure)
DispatchRaise ==
    /\ pc = "dispatch"
    /\ Raise("HTTPError", 0, frame.via, call.original, call.request)
    /\ UNCHANGED <<client, call, history, responses, conts, dispatched, extracted,
                   syncResp, callerClosed, nextCalls,
                   lifecycle, parked>>

\* send(), lines 188-194 with stream false: read the body, close in the finally
ReadBody(ok) ==
    /\ pc = "read"
    /\ LET rid == Last(history)
       IN  /\ responses' = IF SendClosesAfterRead(ok)
                         THEN [responses EXCEPT ![rid] = CloseResponse(@)]
                         ELSE responses
           /\ pc' = "done"
           /\ IF ok
              THEN returned' = rid /\ error' = NoError
              ELSE /\ returned' = 0
                   /\ error' = [NoError EXCEPT !.kind = "ReadError", !.response = rid,
                                               !.via = "send"]
    /\ UNCHANGED <<client, call, frame, history, conts, dispatched, extracted,
                   syncResp, callerClosed, nextCalls,
                   lifecycle, parked>>

\* sync Response.close: runs on_close (the async response's hook) the first time
SyncClose(resps) ==
    IF syncResp.is_closed THEN resps
    ELSE [resps EXCEPT ![syncResp.of].closes = @ + 1]

\* Client.request, lines 733-737 with stream false
SyncReadBody(ok) ==
    /\ pc = "syncread"
    /\ IF SyncClosesAfterRead(ok)
       THEN /\ responses' = SyncClose(responses)
            /\ syncResp' = [syncResp EXCEPT !.is_closed = TRUE]
       ELSE UNCHANGED <<responses, syncResp>>
    /\ pc' = "done"
    /\ IF ok
       THEN returned' = syncResp.of /\ error' = NoError
       ELSE /\ returned' = 0
            /\ error' = [NoError EXCEPT !.kind = "ReadError", !.response = syncResp.of,
                                        !.via = "send"]
    /\ UNCHANGED <<client, call, frame, history, conts, dispatched, extracted,
                   callerClosed, nextCalls,
                   lifecycle, parked>>

\* The caller invokes response.next() of a response it was given: send_next,
\* lines 239-251, up to the first await. (The caller follows the chain first
\* and closes what it holds afterwards.) The sync Response of Client.request,
\* lines 724-732, is built without the continuation, so only the async surface has it.
SendNext(c) ==
    /\ pc = "done"
    /\ call.surface = "async"
    /\ callerClosed = {}
    /\ c \in 1..Len(conts)
    /\ nextCalls < MaxNextCalls
    /\ nextCalls' = nextCalls + 1
    /\ LET cell == conts[c]
           b == build_redirect_request(client.cookies, cell.request,
                                       responses[cell.response])
           fr == [request |-> b.req, allow_redirects |-> call.allow_redirects,
                  via |-> "next", cont |-> c]
       IN  IF b.exc # ""
           THEN /\ Raise(b.exc, cell.response, "next", NoReq, NoReq)
                /\ UNCHANGED <<conts, dispatched, history>>
           ELSE /\ conts' = [conts EXCEPT ![c].request = b.req]
                /\ history' = NextHistory(history)
                /\ EnterLoop(b.req, cell.request, cell.response,
                             NextHistory(history), responses, fr, NoReq, NoReq)
    /\ UNCHANGED <<client, call, responses, extracted, syncResp, callerClosed,
                   lifecycle, parked>>

\* The caller closes the response the last operation returned
CallerClose ==
    /\ pc = "done"
    /\ returned # 0
    /\ returned \notin callerClosed
    /\ callerClosed' = callerClosed \cup {returned}
    /\ IF call.surface = "sync"
       THEN /\ responses' = SyncClose(responses)
            /\ syncResp' = [syncResp EXCEPT !.is_closed = TRUE]
       ELSE /\ responses' = [responses EXCEPT ![returned] = CloseResponse(@)]
            /\ syncResp' = syncResp
    /\ UNCHANGED <<client, pc, call, frame, history, conts, dispatched, extracted,
                   returned, error, nextCalls,
                   lifecycle, parked>>

Next ==
    \/ \E surface \in Surfaces, body \in CallBodies, url \in CallURLs, ah \in CallAuths,
          stream \in BOOLEAN, allow_redirects \in BOOLEAN :
            Request(surface, body, url, ah, stream, allow_redirects)
    \/ \E answer \in ServerResponses : DispatchReturn(answer)
    \/ DispatchRaise
    \/ \E ok \in BOOLEAN : ReadBody(ok)
    \/ \E ok \in BOOLEAN : SyncReadBody(ok)
    \/ \E c \in 1..Len(conts) : SendNext(c)
    \/ CallerClose

Spec == Init /\ [][Next]_vars

-----------------------------------------------------------------------------
\* The cookie jar across hops: clients constructed with and without cookies,
\* calls with and without per-call cookies, answers with Set-Cookie headers.

CookiesOld == [sid |-> "old", pref |-> ""]

CookieCalls ==
    {[auth |-> "none", headers |-> NoHeaders, cookies |-> c, trust_env |-> "unset"] :
        c \in {NoCookies, CookiesOld}}

CookieBodies ==
    {[method |-> "GET", is_streaming |-> FALSE, content |-> ""],
     [method |-> "POST", is_streaming |-> TRUE, content |-> ""]}

SetCookies ==
    {NoCookies, [sid |-> "new", pref |-> ""], [sid |-> "newer", pref |-> "p"]}

CookieAnswers ==
    {[Answer(200, FALSE, NoURL) EXCEPT !.set_cookie = c] : c \in SetCookies}
    \cup {[Answer(status, TRUE, MkURL("https", "a", 0, path, "")) EXCEPT !.set_cookie = c] :
              status \in {302, 307}, path \in {"/1", "/2", "/3"}, c \in SetCookies}

InitCookies ==
    /\ client \in [max_redirects : 0..(MaxRedirectsBound + 1), auth : {"none"},
                   trust_env : {TRUE}, base_url : {NoURL}, headers : {NoHeaders},
                   cookies : {NoCookies, CookiesOld}, netrc_hosts : {{}}]
    /\ TypeInit

NextCookies ==
    \/ \E body \in CookieBodies, url \in CallURLs, ah \in CookieCalls,
          allow_redirects \in BOOLEAN :
            Request("async", body, url, ah, TRUE, allow_redirects)
    \/ \E answer \in CookieAnswers : DispatchReturn(answer)
    \/ \E c \in 1..Len(conts) : SendNext(c)

SpecCookies == InitCookies /\ [][NextCookies]_vars

-----------------------------------------------------------------------------
\* Calls cut short at a suspension point: the await of dispatch.send, the await
\* of response.close() in the loop's finally, the await of the body read.

\* The task is cancelled while it awaits dispatch.send (line 217): the
\* CancelledError is no HTTPError, nothing catches it on the way out.
DispatchCancelled ==
    /\ pc = "dispatch"
    /\ Raise("Cancelled", 0, frame.via, call.original, call.request)
    /\ UNCHANGED <<client, call, history, responses, conts, dispatched, extracted,
                   syncResp, callerClosed, nextCalls,
                   lifecycle, parked>>

\* dispatch.send returns a redirect that is to be followed, and the await of
\* response.close() in the finally (lines 233-235) raises or is cancelled:
\* lines 217-229 have run, close() has been invoked, its exception leaves the engine.
CloseRaises(answer) ==
    /\ pc = "dispatch"
    /\ LET rid == Len(responses) + 1
           resp == [MkResponse(frame.request, answer.status, answer.hasLocation,
                               answer.location, answer.set_cookie)
                    EXCEPT !.history = SnapshotHistory(history)]
           ex == Extract(client.cookies, extracted, resp, rid)
       IN  /\ ShouldFollow(frame.allow_redirects, resp)
           /\ history' = Append(history, rid)
           /\ client' = [client EXCEPT !.cookies = ex.cookies]
           /\ extracted' = ex.log
           /\ responses' = Append(responses, CloseResponse(resp))
           /\ Raise("Cancelled", rid, frame.via, call.original, call.request)
    /\ UNCHANGED <<call, conts, dispatched, syncResp, callerClosed, nextCalls,
                   lifecycle, parked>>

CancelBodies ==
    {[method |-> "GET", is_streaming |-> FALSE, content |-> ""],
     [method |-> "POST", is_streaming |-> TRUE, content |-> ""]}

CancelCalls == {[auth |-> "none", headers |-> NoHeaders, cookies |-> NoCookies,
                 trust_env |-> "unset"]}

CancelAnswers ==
    {Answer(200, FALSE, NoURL), Answer(302, TRUE, URL_A1),
     Answer(302, TRUE, MkURL("https", "a", 0, "/2", "")),
     Answer(307, TRUE, MkURL("https", "a", 0, "/3", ""))}

NextCancel ==
    \/ \E surface \in Surfaces, body \in CancelBodies, ah \in CancelCalls,
          stream \in BOOLEAN, allow_redirects \in BOOLEAN :
            Request(surface, body, URL_A1, ah, stream, allow_redirects)
    \/ \E answer \in CancelAnswers : DispatchReturn(answer)
    \/ \E answer \in CancelAnswers : CloseRaises(answer)
    \/ DispatchRaise
    \/ DispatchCancelled
    \/ \E ok \in BOOLEAN : ReadBody(ok)
    \/ \E ok \in BOOLEAN : SyncReadBody(ok)

SpecCancel == Init /\ [][NextCancel]_vars

-----------------------------------------------------------------------------
\* The client's lifetime: explicit close() and the with / async with scope.

ExitClosesOnlyOnSuccess(exc) == ~exc

\* __aexit__ (lines 620-626) and __exit__ (lines 981-987): close() runs whether
\* or not the block raised (`exc`); returning None, the exception goes on
ExitCloses(exc) == TRUE

\* AsyncClient.close (lines 614-615), Client.close (lines 974-976): one
\* dispatch.close() per call, awaited or run through the backend
ClientClose(lc) ==
    [lc EXCEPT !.close_calls = @ + 1, !.dispatch_closes = @ + 1]

\* __aenter__ / __enter__: hands back the client itself
EnterScope ==
    /\ lifecycle.scope = "out"
    /\ lifecycle' = [lifecycle EXCEPT !.scope = "in"]
    /\ UNCHANGED <<client, pc, call, frame, history, responses, conts, dispatched,
                   extracted, returned, error, syncResp, callerClosed, nextCalls,
                   parked>>

\* __aexit__ / __exit__: the block is left, normally or by an exception
ExitScope(exc) ==
    /\ lifecycle.scope = "in"
    /\ pc \in {"idle", "done"}
    /\ LET left == [lifecycle EXCEPT !.scope = "left", !.exc = exc]
       IN  lifecycle' = IF ExitCloses(exc) THEN ClientClose(left) ELSE left
    /\ UNCHANGED <<client, pc, call, frame, history, responses, conts, dispatched,
                   extracted, returned, error, syncResp, callerClosed, nextCalls,
                   parked>>

\* the caller invokes close() itself
Close ==
    /\ pc \in {"idle", "done"}
    /\ lifecycle.explicit < MaxCloseCalls
    /\ lifecycle' = ClientClose([lifecycle EXCEPT !.explicit = @ + 1])
    /\ UNCHANGED <<client, pc, call, frame, history, responses, conts, dispatched,
                   extracted, returned, error, syncResp, callerClosed, nextCalls,
                   parked>>

NextClose ==
    \/ EnterScope
    \/ \E exc \in BOOLEAN : ExitScope(exc)
    \/ Close
    \/ \E surface \in Surfaces, body \in CancelBodies, ah \in CancelCalls,
          stream \in BOOLEAN :
            Request(surface, body, URL_A1, ah, stream, TRUE)
    \/ \E answer \in CancelAnswers : DispatchReturn(answer)
    \/ DispatchRaise
    \/ \E ok \in BOOLEAN : ReadBody(ok)
    \/ \E ok \in BOOLEAN : SyncReadBody(ok)

SpecClose == Init /\ [][NextClose]_vars

-----------------------------------------------------------------------------
\* Two calls on one client, interleaved at their suspension points. pc, call,
\* frame, history, ... are those of the call that is running; the other call
\* waits in `parked`. The client (with its jar), the responses the dispatcher
\* has produced and the logs are common to both.

\* The event loop resumes the other call: the running one is at an await (or
\* has not started, or is done)
Switch ==
    /\ parked' = [pc |-> pc, call |-> call, frame |-> frame, history |-> history,
                  returned |-> returned, error |-> error, syncResp |-> syncResp,
                  callerClosed |-> callerClosed, nextCalls |-> nextCalls]
    /\ pc' = parked.pc
    /\ call' = parked.call
    /\ frame' = parked.frame
    /\ history' = parked.history
    /\ returned' = parked.returned
    /\ error' = parked.error
    /\ syncResp' = parked.syncResp
    /\ callerClosed' = parked.callerClosed
    /\ nextCalls' = parked.nextCalls
    /\ UNCHANGED <<client, responses, conts, dispatched, extracted, lifecycle>>

ConcurrentURLs == {URL_A1, MkURL("https", "a", 0, "/2", "")}

ConcurrentBodies == {[method |-> "GET", is_streaming |-> FALSE, content |-> ""]}

ConcurrentAnswers ==
    {[Answer(200, FALSE, NoURL) EXCEPT !.set_cookie = c] : c \in {NoCookies, CookiesOld}}
    \cup {Answer(302, TRUE, URL_A1), Answer(302, TRUE, MkURL("https", "a", 0, "/2", ""))}

NextConcurrent ==
    \/ \E body \in ConcurrentBodies, url \in ConcurrentURLs, ah \in CancelCalls,
          stream \in BOOLEAN, allow_redirects \in BOOLEAN :
            Request("async", body, url, ah, stream, allow_redirects)
    \/ \E answer \in ConcurrentAnswers : DispatchReturn(answer)
    \/ DispatchRaise
    \/ \E ok \in BOOLEAN : ReadBody(ok)
    \/ Switch

SpecConcurrent == Init /\ [][NextConcurrent]_vars

-----------------------------------------------------------------------------
\* Chains against a server that keeps redirecting, every dispatcher call
\* coming back (with a response or an error) and every body read ending.

ChainAnswers ==
    {Answer(200, FALSE, NoURL), Answer(302, TRUE, URL_A1), Answer(307, TRUE, URL_A1)}
    \cup {Answer(302, TRUE, MkURL("https", "a", 0, path, "")) : path \in {"/2", "/3", "/4"}}

NextChain ==
    \/ \E stream \in BOOLEAN, allow_redirects \in BOOLEAN, body \in ConcurrentBodies,
          ah \in CancelCalls :
            Request("async", body, URL_A1, ah, stream, allow_redirects)
    \/ \E answer \in ChainAnswers : DispatchReturn(answer)
    \/ DispatchRaise
    \/ \E ok \in BOOLEAN : ReadBody(ok)
    \/ \E c \in 1..Len(conts) : SendNext(c)

SpecChain ==
    /\ Init
    /\ [][NextChain]_vars
    /\ WF_vars(\E answer \in ChainAnswers : DispatchReturn(answer))
    /\ WF_vars(\E ok \in BOOLEAN : ReadBody(ok))

-----------------------------------------------------------------------------
\* Chains that leave the origin of the first request and come back to it,
\* the first request carrying credentials.

OriginCalls ==
    {[auth |-> a, headers |-> NoHeaders, cookies |-> NoCookies, trust_env |-> "unset"] :
        a \in {"none", "basic", "custom"}}

OriginAnswers ==
    {Answer(200, FALSE, NoURL),
     Answer(302, TRUE, MkURL("https", "a", 0, "/2", "")),
     Answer(302, TRUE, MkURL("https", "c", 0, "/2", "")),
     Answer(307, TRUE, MkURL("https", "a", 0, "/3", "")),
     Answer(307, TRUE, MkURL("https", "c", 0, "/3", ""))}

InitOrigins ==
    /\ client \in [max_redirects : 0..(MaxRedirectsBound + 1), auth : {"none"},
                   trust_env : {TRUE}, base_url : {NoURL}, headers : {NoHeaders},
                   cookies : {NoCookies}, netrc_hosts : {{}, {authority(URL_A1)}}]
    /\ TypeInit

NextOrigins ==
    \/ \E body \in ConcurrentBodies, ah \in OriginCalls, allow_redirects \in BOOLEAN :
            Request("async", body, URL_A1, ah, TRUE, allow_redirects)
    \/ \E answer \in OriginAnswers : DispatchReturn(answer)
    \/ DispatchRaise
    \/ \E c \in 1..Len(conts) : SendNext(c)

SpecOrigins == InitOrigins /\ [][NextOrigins]_vars

-----------------------------------------------------------------------------
\* Credential resolution: clients with and without a default auth, trust_env
\* and a netrc entry; calls with and without auth, trust_env and URL user-info.

URL_UserA1 == [URL_A1 EXCEPT !.userinfo = "user"]

AuthURLs == {URL_A1, URL_UserA1, MkURL("https", "a", 8443, "/1", "")}

AuthCalls ==
    [auth : {"none", "basic", "custom"}, headers : {NoHeaders}, cookies : {NoCookies},
     trust_env : {"unset", "true", "false"}]

AuthBodies == {[method |-> "GET", is_streaming |-> FALSE, content |-> ""]}

AuthAnswers == {Answer(200, FALSE, NoURL), Answer(302, TRUE, MkURL("https", "a", 0, "/2", ""))}

InitAuth ==
    /\ client \in [max_redirects : 0..MaxRedirectsBound, auth : {"none", "default"},
                   trust_env : BOOLEAN, base_url : {NoURL}, headers : {NoHeaders},
                   cookies : {NoCookies}, netrc_hosts : {{}, {authority(URL_A1)}}]
    /\ TypeInit

NextAuth ==
    \/ \E body \in AuthBodies, url \in AuthURLs, ah \in AuthCalls :
            Request("async", body, url, ah, TRUE, TRUE)
    \/ \E answer \in AuthAnswers : DispatchReturn(answer)

SpecAuth == InitAuth /\ [][NextAuth]_vars

-----------------------------------------------------------------------------
\* URL merging and the HSTS upgrade: clients with and without a base URL, calls
\* with absolute and relative URLs, hosts in and out of the preload list.

BaseURLs == {NoURL, MkURL("http", "h", 0, "/base", ""), MkURL("http", "a", 0, "/base", "")}

MergeURLs ==
    {MkURL("http", "h", 0, "/1", ""), MkURL("https", "h", 0, "/1", ""),
     MkURL("http", "a", 0, "/1", ""), MkURL("", "", 0, "/1", ""),
     MkURL("http", "h", 8080, "/1", "")}

MergeCalls == {[auth |-> "none", headers |-> NoHeaders, cookies |-> NoCookies,
                trust_env |-> "unset"]}

MergeAnswers ==
    {Answer(200, FALSE, NoURL),
     Answer(302, TRUE, MkURL("http", "h", 0, "/2", "")),
     Answer(302, TRUE, MkURL("http", "a", 0, "/2", "")),
     Answer(307, TRUE, MkURL("", "", 0, "/3", ""))}

InitURL ==
    /\ client \in [max_redirects : 0..MaxRedirectsBound, auth : {"none"},
                   trust_env : {TRUE}, base_url : BaseURLs, headers : {NoHeaders},
                   cookies : {NoCookies}, netrc_hosts : {{}}]
    /\ TypeInit

NextURL ==
    \/ \E surface \in Surfaces, body \in AuthBodies, url \in MergeURLs, ah \in MergeCalls,
          allow_redirects \in BOOLEAN :
            Request(surface, body, url, ah, TRUE, allow_redirects)
    \/ \E answer \in MergeAnswers : DispatchReturn(answer)
    \/ \E c \in 1..Len(conts) : SendNext(c)

SpecURL == InitURL /\ [][NextURL]_vars

-----------------------------------------------------------------------------
\* Header merging: clients with and without default headers, calls with and
\* without headers of the same names.

HeaderSets == [authorization : {"", "T1", "T2"}, host : {"", "a", "b"}]

HeaderCalls ==
    {[auth |-> "none", headers |-> h, cookies |-> NoCookies, trust_env |-> "unset"] :
        h \in HeaderSets}

InitHeaders ==
    /\ client \in [max_redirects : 0..MaxRedirectsBound, auth : {"none"},
                   trust_env : {TRUE}, base_url : {NoURL}, headers : HeaderSets,
                   cookies : {NoCookies}, netrc_hosts : {{}}]
    /\ TypeInit

NextHeaders ==
    \/ \E surface \in Surfaces, body \in AuthBodies, ah \in HeaderCalls :
            Request(surface, body, URL_A1, ah, TRUE, TRUE)
    \/ \E answer \in AuthAnswers : DispatchReturn(answer)

SpecHeaders == InitHeaders /\ [][NextHeaders]_vars

-----------------------------------------------------------------------------
\* Properties.

N == client.max_redirects

HTTPErrorKinds == {"HTTPError", "TooManyRedirects", "RedirectLoop", "RedirectBodyUnavailable"}

\* the hops built from an earlier request (automatic redirects and next() hops)
RedirectHops == {i \in 1..Len(dispatched) : dispatched[i].prior # NoReq}

\* the method table of the redirect rules: 303 and 302 turn every method but
\* HEAD into GET, 301 turns POST into GET, everything else keeps the method
ExpectedMethod(m, s) ==
    IF s = 303 /\ m # "HEAD" THEN "GET"
    ELSE IF s = 302 /\ m # "HEAD" THEN "GET"
    ELSE IF s = 301 /\ m = "POST" THEN "GET"
    ELSE m

\* C1: every request handed to the dispatcher (first hop, automatic redirect
\* hop, next() hop) has scheme http or https.
C1_DispatchedSchemeHttp ==
    \A i \in 1..Len(dispatched) : dispatched[i].request.url.scheme \in {"http", "https"}

\* the first N+1 responses of the chain have arrived and the first N are redirects
C2_ChainOfNRedirects ==
    /\ call.allow_redirects
    /\ Len(responses) = N + 1
    /\ \A i \in 1..N : is_redirect(responses[i])

\* the (N+1)-th response came back from the engine without a redirect error
C2_Returned ==
    \/ pc \in {"read", "syncread"}
    \/ pc = "done" /\ (returned = N + 1 \/ error.kind = "ReadError")

\* the call failed with `kinds` after exactly N+1 dispatches, carrying the last response
C2_Failed(kinds) ==
    /\ pc = "done"
    /\ error.kind \in kinds
    /\ error.response = N + 1
    /\ Len(dispatched) = N + 1

\* C2 as stated: N redirects and a final response succeed; N+1 redirects fail
\* with TooManyRedirects after exactly N+1 dispatches, carrying the last response.
C2_LimitAsStated ==
    /\ C2_ChainOfNRedirects =>
           IF is_redirect(responses[N + 1]) THEN C2_Failed({"TooManyRedirects"})
           ELSE C2_Returned
    /\ (error.kind = "TooManyRedirects" /\ error.via = "send") =>
           (error.response = N + 1 /\ Len(dispatched) = N + 1)

\* the request of hop N+1 has a lazy-stream body and the redirect answering it
\* does not turn its method into GET: the body would have to be sent again
C2_BodyUnavailable ==
    LET r == dispatched[N + 1].request
        m == ExpectedMethod(r.method, responses[N + 1].status)
    IN  r.is_streaming /\ ~(m # r.method /\ m = "GET")

\* C2 (amended): N redirects and a final response succeed; N+1 redirects fail
\* after exactly N+1 dispatches with an error carrying the last response, which
\* is RedirectBodyUnavailable when the request of hop N+1 has a lazy-stream body
\* that the redirect would have to send again, and TooManyRedirects otherwise.
C2_Limit ==
    /\ C2_ChainOfNRedirects =>
           IF is_redirect(responses[N + 1])
           THEN C2_Failed({IF C2_BodyUnavailable THEN "RedirectBodyUnavailable"
                           ELSE "TooManyRedirects"})
           ELSE C2_Returned
    /\ (error.kind = "TooManyRedirects" /\ error.via = "send") =>
           (error.response = N + 1 /\ Len(dispatched) = N + 1)

C2_Witness ==
    /\ N = 1
    /\ error.kind = "TooManyRedirects"
    /\ error.via = "send"
    /\ Len(responses) = 2

C4_Buffered == pc = "done" /\ ~call.stream /\ nextCalls = 0

\* C4: with stream=false, on both surfaces, a call that returns has had the close
\* hook of its response invoked exactly once, and a call whose body read fails
\* has had the hook invoked too and fails with the read failure.
C4_BufferedClosesOnce ==
    C4_Buffered =>
        /\ returned # 0 => responses[returned].closes = 1
        /\ call.result # 0 =>
               /\ responses[call.result].closes = 1
               /\ returned = call.result \/ error.kind = "ReadError"
        /\ error.kind = "ReadError" => error.response = call.result

C4_Witness ==
    /\ C4_Buffered
    /\ call.surface = "sync"
    /\ error.kind = "ReadError"
    /\ responses[call.result].closes = 1

\* C5: with stream=true, on both surfaces, the close hook of the response the
\* call returned has been invoked if and only if the caller closed that response.
C5_StreamLeftOpen ==
    (call.stream /\ call.result # 0) =>
        responses[call.result].closes = (IF call.result \in callerClosed THEN 1 ELSE 0)

C5_Witness ==
    /\ call.stream
    /\ call.surface = "sync"
    /\ call.result # 0
    /\ call.result \in callerClosed
    /\ responses[call.result].closes = 1

C7_HistoryBounded ==
    /\ returned # 0 => Len(responses[returned].history) <= N
    /\ call.result # 0 => Len(responses[call.result].history) <= N
    /\ syncResp.of # 0 => Len(syncResp.history) <= N

C7_Witness ==
    /\ N = 1
    /\ returned # 0
    /\ Len(responses[returned].history) = 1

\* C8: an HTTP-class error leaving send() carries the request that was passed to send().
C8_ErrorCarriesOriginal ==
    (error.via = "send" /\ error.kind \in HTTPErrorKinds) =>
        error.request.obj = call.original.obj

\* C9: a redirect hop to another origin carries neither Authorization nor the
\* prior Host header; a hop to the same origin carries the prior Authorization.
C9_HeadersAcrossOrigins ==
    \A i \in RedirectHops :
        LET d == dispatched[i]
        IN  IF origin(d.request.url) # origin(d.prior.url)
            THEN d.request.headers.authorization = "" /\ d.request.headers.host = ""
            ELSE d.request.headers.authorization = d.prior.headers.authorization

C9_Witness ==
    \E i \in RedirectHops :
        /\ origin(dispatched[i].request.url) # origin(dispatched[i].prior.url)
        /\ dispatched[i].prior.headers.authorization # ""
        /\ dispatched[i].prior.headers.host # ""
        /\ dispatched[i].request.headers = NoHeaders

\* C10: the method of a redirect hop follows the method table.
C10_RedirectMethod ==
    \A i \in RedirectHops :
        dispatched[i].request.method =
            ExpectedMethod(dispatched[i].prior.method, dispatched[i].status)

C10_Witness ==
    \E i \in RedirectHops :
        /\ dispatched[i].prior.method = "PUT"
        /\ dispatched[i].status = 301
        /\ dispatched[i].request.method = "PUT"

\* the redirect turns the method of request `r` into GET from a different method
C11_RewrittenToGet(r, status) ==
    LET m == ExpectedMethod(r.method, status)
    IN  m # r.method /\ m = "GET"

\* C11: a redirect hop whose method was rewritten to GET from a different method
\* has an empty body, even when the prior body was a lazy stream; any other
\* redirect hop had a prior body of bytes and carries those bytes unchanged; a
\* prior lazy-stream body without the rewrite fails with RedirectBodyUnavailable
\* carrying the redirect response, and nothing is dispatched for the next hop.
C11_RedirectBody ==
    /\ \A i \in RedirectHops :
           LET d == dispatched[i]
           IN  /\ ~d.request.is_streaming
               /\ IF C11_RewrittenToGet(d.prior, d.status)
                  THEN d.request.content = ""
                  ELSE ~d.prior.is_streaming /\ d.request.content = d.prior.content
    /\ error.kind = "RedirectBodyUnavailable" =>
           /\ pc = "done"
           /\ error.response = Len(responses)
           /\ Len(dispatched) = Len(responses)
           /\ is_redirect(responses[error.response])
           /\ Last(dispatched).request.is_streaming
           /\ Last(dispatched).request.url = responses[error.response].url
           /\ ~C11_RewrittenToGet(Last(dispatched).request, responses[error.response].status)
    /\ \A k \in 1..Len(dispatched) :
           (/\ k \in 1..Len(responses)
            /\ dispatched[k].request.is_streaming
            /\ is_redirect(responses[k])
            /\ ~C11_RewrittenToGet(dispatched[k].request, responses[k].status)
            /\ call.allow_redirects
            /\ pc = "done") =>
               error.kind = "RedirectBodyUnavailable"

C11_Witness ==
    /\ \E i \in RedirectHops :
           /\ dispatched[i].prior.is_streaming
           /\ dispatched[i].status = 302
           /\ dispatched[i].request.method = "GET"
           /\ dispatched[i].request.content = ""
    /\ Len(responses) = 2

\* C12: every cookie the response of hop N stored into the jar is, with that
\* value, among the cookies of the request built from that response for hop N+1.
C12_StoredCookiesOnNextHop ==
    \A i \in RedirectHops :
        LET d == dispatched[i]
            stored == responses[d.from].set_cookie
        IN  /\ stored.sid # "" => d.request.cookies.sid = stored.sid
            /\ stored.pref # "" => d.request.cookies.pref = stored.pref

\* C13: cookie extraction has run exactly once for each response received, in
\* the order of receipt, and the jar changes in no other way: each change of
\* the jar is the extraction of the response just received.
C13_ExtractedOncePerResponse ==
    /\ [](extracted = [i \in 1..Len(responses) |-> i])
    /\ [][/\ Len(responses') \in {Len(responses), Len(responses) + 1}
          /\ Len(responses') = Len(responses) => client'.cookies = client.cookies
          /\ Len(responses') = Len(responses) + 1 =>
                 client'.cookies = extract_cookies(client.cookies, Last(responses'))]_vars

C13_Witness ==
    /\ error.kind = "RedirectBodyUnavailable"
    /\ extracted = <<1>>
    /\ client.cookies.sid = "new"

\* the trust_env in force for the call: the per-call value when given, else the client's
C14_TrustEnv == IF call.trust_env = "unset" THEN client.trust_env ELSE call.trust_env = "true"

\* the Authorization header each source of credentials leaves on the first request
C14_Header(auth) ==
    IF auth = "basic" THEN "Basic"
    ELSE IF auth = "custom" THEN "Custom"
    ELSE IF auth = "none" THEN ""
    ELSE "Basic " \o auth

\* the order after the per-call auth and the client default: URL user-info, netrc, none
C14_FromURLOrNetrc ==
    IF call.original.url.userinfo # "" THEN "url"
    ELSE IF C14_TrustEnv /\ authority(call.original.url) \in client.netrc_hosts THEN "netrc"
    ELSE "none"

\* C14 as stated: the first request carries the credentials of the per-call auth
\* if given, else of the URL user-info, else (trust_env in force) of the netrc
\* entry, else none; a credentials pair is applied as Basic auth.
C14_AuthOrderAsStated ==
    Len(dispatched) >= 1 =>
        dispatched[1].request.headers.authorization =
            C14_Header(IF call.auth # "none" THEN call.auth ELSE C14_FromURLOrNetrc)

\* C14 (amended): the first request carries the credentials of the per-call auth
\* if given, else of the client's default auth if it has one, else of the URL
\* user-info, else (trust_env in force) of the netrc entry, else none; a
\* credentials pair is applied as Basic auth.
C14_AuthOrder ==
    Len(dispatched) >= 1 =>
        dispatched[1].request.headers.authorization =
            C14_Header(IF call.auth # "none" THEN call.auth
                       ELSE IF client.auth # "none" THEN client.auth
                       ELSE C14_FromURLOrNetrc)

C14_Witness ==
    /\ Len(dispatched) >= 1
    /\ call.auth = "none"
    /\ client.auth = "none"
    /\ call.original.url.userinfo # ""
    /\ call.trust_env = "true"
    /\ ~client.trust_env
    /\ authority(call.original.url) \in client.netrc_hosts
    /\ dispatched[1].request.headers.authorization = "Basic url"

\* C15: a response the engine returned carries a next continuation exactly when
\* it is a redirect, and then allow_redirects was false; every hop dispatched by
\* an invocation of next was built from the response carrying that continuation,
\* on the chain's history (its hop number follows the responses received so far);
\* an invocation of next fails only with an error of the engine.
C15_NextContinuation ==
    /\ \A k \in 1..Len(responses) :
           /\ responses[k].next # 0 => is_redirect(responses[k]) /\ ~call.allow_redirects
           /\ (k = call.result \/ k = returned) =>
                  (responses[k].next # 0 <=> is_redirect(responses[k]))
    /\ \A i \in 1..Len(dispatched) :
           dispatched[i].via = "next" =>
               /\ responses[dispatched[i].from].next = dispatched[i].cont
               /\ dispatched[i].hop > dispatched[i].from
               /\ dispatched[i].request.url # responses[dispatched[i].from].url
    /\ error.via = "next" => error.kind \in HTTPErrorKinds

\* C16: the URL of the first request dispatched is the base URL joined with the
\* URL of the call, its scheme replaced by https when the joined URL has scheme
\* http and a host in the preload list; without a base URL the join changes nothing.
C16_FirstURL ==
    LET joined == join(client.base_url, call.url)
    IN  /\ client.base_url = NoURL => joined = call.url
        /\ Len(dispatched) >= 1 =>
               dispatched[1].request.url =
                   IF joined.scheme = "http" /\ joined.host \in HSTSPreload
                   THEN [joined EXCEPT !.scheme = "https"]
                   ELSE joined

C16_Witness ==
    /\ Len(dispatched) >= 1
    /\ call.surface = "sync"
    /\ client.base_url.host \in HSTSPreload
    /\ is_relative_url(call.url)
    /\ dispatched[1].request.url = MkURL("https", "h", 0, "/1", "")

\* C17: no request dispatched, first hop or redirect hop, has scheme http and a
\* host in the preload list.
C17_NoPlainHTTPToPreloaded ==
    \A i \in 1..Len(dispatched) :
        ~(dispatched[i].request.url.scheme = "http"
          /\ dispatched[i].request.url.host \in HSTSPreload)

\* C18: a call whose request has a scheme other than http and https fails with
\* InvalidURL (and only such a call does); nothing was dispatched, no response
\* exists, no cookie was extracted, and the failing step leaves the client
\* (its cookie jar included) as it was.
C18_InvalidURL ==
    /\ [](pc # "idle" =>
            IF call.original.url.scheme \in {"http", "https"}
            THEN error.kind # "InvalidURL"
            ELSE /\ pc = "done"
                 /\ error.kind = "InvalidURL"
                 /\ dispatched = <<>>
                 /\ responses = <<>>
                 /\ extracted = <<>>
                 /\ returned = 0
                 /\ call.result = 0)
    /\ [][error'.kind = "InvalidURL" => client' = client]_vars

C18_Witness ==
    /\ error.kind = "InvalidURL"
    /\ call.original.url.scheme = "ftp"
    /\ call.original.cookies = CookiesOld
    /\ client.cookies = CookiesOld
    /\ dispatched = <<>>

\* C19: when a call that has received responses fails or is cancelled (while
\* awaiting the next hop's dispatch, an intermediate close, or the body read of
\* a buffered call), close has been invoked on every response it received.
C19_AbortedCallClosesAll ==
    (pc = "done" /\ error.via = "send" /\ error.kind # "") =>
        \A k \in 1..Len(responses) : responses[k].closes >= 1

C19_Witness ==
    /\ pc = "done"
    /\ error.kind = "Cancelled"
    /\ error.response = 0
    /\ Len(responses) = 1
    /\ Len(dispatched) = 2
    /\ responses[1].closes = 1

\* C20: every close() of the client has invoked the dispatcher's close exactly
\* once; leaving the scope has invoked close(), whether the block ended normally
\* or by an exception; a client used through one scope and never closed by
\* hand has closed its dispatcher exactly once.
C20_CloseOncePerClose ==
    /\ lifecycle.dispatch_closes = lifecycle.close_calls
    /\ lifecycle.close_calls =
           lifecycle.explicit + (IF lifecycle.scope = "left" THEN 1 ELSE 0)
    /\ (lifecycle.scope = "left" /\ lifecycle.explicit = 0) =>
           lifecycle.dispatch_closes = 1

C20_Witness ==
    /\ lifecycle.scope = "left"
    /\ lifecycle.exc
    /\ lifecycle.explicit = 0
    /\ error.kind = "HTTPError"
    /\ lifecycle.dispatch_closes = 1

C22_Range(seq) == {seq[i] : i \in 1..Len(seq)}

\* C22: with two calls interleaved at their suspension points, no response is
\* in the history of both; the history each response carries is the part of its
\* own call's history received before it; the responses whose cookies were
\* extracted are exactly those in the history of some call, each once; a step
\* changes nothing of the client but its cookie jar and nothing of the call
\* that is not running.
C22_ConcurrentCalls ==
    /\ [](/\ C22_Range(history) \cap C22_Range(parked.history) = {}
          /\ C22_Range(extracted) = C22_Range(history) \cup C22_Range(parked.history)
          /\ Len(extracted) = Len(history) + Len(parked.history)
          /\ \A k \in 1..Len(responses) :
                 \E h \in {history, parked.history} : \E i \in 1..Len(h) :
                     h[i] = k /\ responses[k].history = SubSeq(h, 1, i - 1))
    /\ [][/\ client' = [client EXCEPT !.cookies = client'.cookies]
          /\ parked' # parked =>
                 /\ parked'.history = history /\ parked'.pc = pc /\ parked'.call = call
                 /\ history' = parked.history /\ pc' = parked.pc /\ call' = parked.call
                 /\ client' = client /\ responses' = responses]_vars

C22_Witness ==
    /\ history = <<1, 3>>
    /\ parked.history = <<2>>
    /\ parked.pc = "dispatch"
    /\ responses[3].history = <<1>>
    /\ client.cookies = CookiesOld

\* the responses the engine handed back to a caller (of send() or of next())
C23_EngineReturned ==
    {k \in 1..Len(responses) :
        k = call.result \/ \E c \in 1..Len(conts) : conts[c].response = k}

\* C23: the response an automatic redirect hop was built from had its close
\* invoked when the hop was dispatched; a response is handed back by the engine
\* unclosed; the close hook of a response runs at most once, and when it has
\* run the response was abandoned by the engine while following redirects, or
\* is the result of a buffered send(), or was closed by the caller.
C23_ReleasedOnce ==
    /\ \A i \in RedirectHops :
           dispatched[i].via = "send" => responses[dispatched[i].from].closes = 1
    /\ pc \in {"read", "syncread"} => responses[call.result].closes = 0
    /\ \A k \in C23_EngineReturned :
           (k \notin callerClosed /\ (k # call.result \/ call.stream)) =>
               responses[k].closes = 0
    /\ \A k \in 1..Len(responses) :
           /\ responses[k].closes <= 1
           /\ responses[k].closes = 1 =>
                  \/ k \notin C23_EngineReturned
                  \/ k = call.result /\ ~call.stream /\ pc \notin {"read", "syncread"}
                  \/ k \in callerClosed
           /\ k \notin C23_EngineReturned => responses[k].closes = 1

C23_Witness ==
    /\ Len(responses) = 2
    /\ dispatched[2].via = "send"
    /\ responses[1].closes = 1
    /\ call.stream
    /\ returned = 2
    /\ 2 \in callerClosed
    /\ responses[2].closes = 1

\* C24: on the sync surface a call with allow_redirects false whose response
\* is a redirect returns a response that has the next continuation.
C24_SyncExposesNext ==
    (/\ call.surface = "sync"
     /\ ~call.allow_redirects
     /\ syncResp.of # 0
     /\ is_redirect(responses[syncResp.of])) =>
        syncResp.has_next

\* C25: a chain never receives more than max_redirects + 1 responses, the
\* responses of next() invocations (repeated ones too) counted; and a call or
\* continuation that is running comes to its end, by returning or by an error.
C25_ChainBounded ==
    /\ [](Len(responses) <= N + 1 /\ Len(history) = Len(responses))
    /\ (pc \in {"dispatch", "read"}) ~> (pc = "done")

C25_Witness ==
    /\ N = 1
    /\ Len(responses) = 2
    /\ nextCalls = 2
    /\ Len(dispatched) = 2
    /\ error.kind = "TooManyRedirects"
    /\ error.via = "next"

\* C26: once a redirect hop has left the origin of the request before it, that
\* hop and every request dispatched after it on the chain (automatic hop or
\* next() hop) is without an Authorization header, also when it goes back to
\* the origin of the first request.
C26_AuthorizationStaysOff ==
    \A i \in RedirectHops :
        origin(dispatched[i].request.url) # origin(dispatched[i].prior.url) =>
            \A j \in i..Len(dispatched) : dispatched[j].request.headers.authorization = ""

C26_Witness ==
    /\ Len(dispatched) = 3
    /\ dispatched[1].request.headers.authorization # ""
    /\ dispatched[2].request.url.host = "c"
    /\ dispatched[3].via = "next"
    /\ origin(dispatched[3].request.url) = origin(dispatched[1].request.url)
    /\ dispatched[3].request.headers.authorization = ""

====
